---- MODULE Spec2Model ----
(***************************************************************************)
(* Model of the growable vector of rodrigoo-r/vector.                      *)
(*                                                                         *)
(* Two variants live in the repository:                                    *)
(*   "library" : src/library.h, struct Vector, void* slots, an el_size     *)
(*               parameter that vec_resize multiplies by the new capacity; *)
(*   "typed"   : src/vector.h, DEFINE_VECTOR(V, NAME), slots of type V,    *)
(*               instantiated in the file as DEFINE_VECTOR(void *, generic)*)
(*                                                                         *)
(* The heap block behind vector->data is modelled with its size in bytes   *)
(* and the slots that fit in it.  An access outside the block is undefined *)
(* behaviour: the process either crashes or goes on with indeterminate     *)
(* contents.  exit(1) is the state "Exited" with the error that caused it. *)
(* Sizes stay far below SIZE_MAX, so size_t arithmetic does not wrap here.  *)
(***************************************************************************)
EXTENDS Integers, Sequences, FiniteSets, TLC

\* ---------------------------------------------------------------- bounds
MaxInitCap == 2
MaxLen == 4
MaxN == 2
MaxNewCap == 2

\* ------------------------------------------------------ program constants
\* sizeof(void *): the slot unit of struct Vector and of vector_generic_t.
PtrSize == 8
\* Indeterminate contents of memory returned by malloc or grown by realloc.
Junk == -1

Values == {10, 20}
\* el_size arguments given to vec_init: sizeof(int) and sizeof(int *).
ElSizes == {4, 8}
\* growth factors as exact fractions <<numerator, denominator>>: 2.0 and 1.5.
GrowthFactors == {<<2, 1>>, <<3, 2>>}
Variants == {"library", "typed"}

VARIABLES
    variant,    \* which header the buffer comes from
    vector,     \* the struct: length, el_size, capacity, growth_factor, data
    heap,       \* the block vector.data points to: live, bytes, slots
    status,     \* "Uninit", "Live", "Destroyed", "Exited", "Crashed"
    error,      \* the reason of exit(1)
    corrupt,    \* a write outside the block has happened
    frees,      \* how many times the current block has been passed to free
    loop,       \* position inside a for_each / destroy loop
    trace,      \* the callback invocations and the release of the running or last call
    last,       \* the last completed call: op, arguments, result, pre-state
    appended    \* the values pushed since init, while nothing but push and get ran

vars == <<variant, vector, heap, status, error, corrupt, frees, loop, trace, last, appended>>

\* The state the handlers work on, as one record; reallocs counts the calls
\* of realloc made by the handler that runs.
M == [variant |-> variant, vector |-> vector, heap |-> heap, status |-> status,
      error |-> error, corrupt |-> corrupt, frees |-> frees, reallocs |-> 0]

NoBlock == [live |-> FALSE, bytes |-> 0, slots |-> <<>>]
NoLoop == [op |-> "none", i |-> 0, fn |-> FALSE]
NoBefore == [op |-> "none", arg |-> 0, preLen |-> 0, outcome |-> "ok"]
NoCall == [op |-> "none", arg |-> 0, index |-> 0, ret |-> <<>>, outcome |-> "ok",
           reallocs |-> 0,
           preLen |-> 0, preCap |-> 0, preSlots |-> <<>>, preBytes |-> 0,
           before |-> NoBefore]

\* Size in bytes of one slot of data: void* in library.h, V in vector.h.
SlotSize(m) == IF m.variant = "library" THEN PtrSize ELSE m.vector.el_size

\* Number of whole slots the block holds.
AllocSlots(m) == IF m.heap.live THEN Len(m.heap.slots) ELSE 0

\* exit(1) with a diagnostic.
Exit(m, why) == [m EXCEPT !.status = "Exited", !.error = why]

\* The process is killed by the undefined access.
Crash(m) == [m EXCEPT !.status = "Crashed"]

\* malloc(bytes): a fresh block of indeterminate contents.
MallocBlock(bytes, slot) ==
    [live |-> TRUE, bytes |-> bytes, slots |-> [i \in 1..(bytes \div slot) |-> Junk]]

\* realloc(block, bytes): the old contents up to the smaller size, the rest indeterminate.
ReallocBlock(old, bytes, slot) ==
    [live |-> TRUE, bytes |-> bytes,
     slots |-> [i \in 1..(bytes \div slot) |->
                    IF i <= Len(old.slots) THEN old.slots[i] ELSE Junk]]

\* (size_t)(capacity * growth_factor): the double product truncated.
NewCapacity(capacity, growth_factor) == (capacity * growth_factor[1]) \div growth_factor[2]

\* An init without the test for initial_capacity == 0.
vec_init_no_zero_check(m, v, initial_capacity, el_size, growth_factor) ==
    LET vec == [length |-> 0, capacity |-> initial_capacity, el_size |-> el_size,
                growth_factor |-> growth_factor, data |-> "NULL"]
        slot == IF v = "library" THEN PtrSize ELSE el_size
        m1 == [m EXCEPT !.variant = v, !.vector = vec]
    IN  { [m1 EXCEPT !.vector.data = "ptr",
                     !.heap = MallocBlock(slot * initial_capacity, slot),
                     !.frees = 0,
                     !.status = "Live"],
          Exit(m1, "AllocationError") }

\* vec_init / vec_NAME_init.  The typed struct has no el_size field: there
\* el_size stands for sizeof(V), the factor of its malloc and realloc.
vec_init(m, v, initial_capacity, el_size, growth_factor) ==
    IF initial_capacity = 0
    THEN {Exit([m EXCEPT !.variant = v], "ConstructionError")}
    ELSE LET vec == [length |-> 0, capacity |-> initial_capacity, el_size |-> el_size,
                     growth_factor |-> growth_factor, data |-> "NULL"]
             slot == IF v = "library" THEN PtrSize ELSE el_size
             m1 == [m EXCEPT !.variant = v, !.vector = vec]
         IN  { [m1 EXCEPT !.vector.data = "ptr",
                          !.heap = MallocBlock(slot * initial_capacity, slot),
                          !.frees = 0,
                          !.status = "Live"],
               Exit(m1, "AllocationError") }

\* vec_capacity / vec_len
vec_capacity(m) == m.vector.capacity
vec_len(m) == m.vector.length

\* realloc(block, 0) where the library frees the block and returns NULL: the
\* failure branch then passes the freed pointer to free a second time, which
\* is undefined: the process is killed there or goes on to exit(1).
ReallocZeroFreed(m) ==
    LET m1 == [m EXCEPT !.heap.live = FALSE, !.frees = @ + 2]
    IN  {Crash(m1), Exit(m1, "AllocationError")}

\* vec_resize / vec_NAME_resize: realloc to el_size * new_capacity bytes.
\* Only the data pointer is stored back.  A NULL result takes the failure
\* branch: free(vector->data), perror, exit(1).
vec_resize(m, new_capacity) ==
    LET bytes == m.vector.el_size * new_capacity
        m0 == [m EXCEPT !.reallocs = @ + 1]
    IN  { [m0 EXCEPT !.heap = ReallocBlock(m.heap, bytes, SlotSize(m)), !.vector.data = "ptr"],
          Exit([m0 EXCEPT !.heap.live = FALSE, !.frees = @ + 1], "AllocationError") }
        \cup (IF bytes = 0 THEN ReallocZeroFreed(m0) ELSE {})
        \cup (IF m.corrupt THEN {Crash(m0)} ELSE {})

\* An ensure that also grows when length + n == capacity.
vec_ensure_ge(m, n) ==
    IF m.vector.length + n >= m.vector.capacity
    THEN vec_resize(m, NewCapacity(m.vector.capacity, m.vector.growth_factor))
    ELSE {m}

\* vec_ensure / vec_NAME_ensure
vec_ensure(m, n) ==
    IF m.vector.length + n > m.vector.capacity
    THEN vec_resize(m, NewCapacity(m.vector.capacity, m.vector.growth_factor))
    ELSE {m}

\* data[index] = value
WriteSlot(m, index, value) ==
    IF index < AllocSlots(m)
    THEN {[m EXCEPT !.heap.slots[index + 1] = value]}
    ELSE {Crash(m), [m EXCEPT !.corrupt = TRUE]}

\* data[index] as an rvalue: the pairs <<machine, value read>>.
ReadSlot(m, index) ==
    IF index < AllocSlots(m) /\ m.heap.slots[index + 1] # Junk
    THEN {<<m, m.heap.slots[index + 1]>>}
    ELSE {<<m, x>> : x \in Values}
         \cup (IF index < AllocSlots(m) THEN {} ELSE {<<Crash(m), Junk>>})

\* vec_push / vec_NAME_push
vec_push(m, value) ==
    UNION { IF m1.status # "Live"
            THEN {m1}
            ELSE { IF m2.status # "Live" THEN m2 ELSE [m2 EXCEPT !.vector.length = @ + 1]
                   : m2 \in WriteSlot(m1, m1.vector.length, value) }
          : m1 \in vec_ensure(m, 1) }

\* A bounds test that lets index == length through.
InBoundsOffByOne(index, length) == ~(index > length)

\* the test of vec_set and vec_get that lets the access through
InBounds(index, length) == ~(index >= length)

\* vec_set / vec_NAME_set
vec_set(m, index, value) ==
    IF ~InBounds(index, m.vector.length)
    THEN {Exit(m, "BoundsError")}
    ELSE WriteSlot(m, index, value)

\* vec_get / vec_NAME_get: the pairs <<machine, returned value>>
vec_get(m, index) ==
    IF ~InBounds(index, m.vector.length)
    THEN {<<Exit(m, "BoundsError"), Junk>>}
    ELSE ReadSlot(m, index)

\* A clear that drops only the last element.
vec_clear_last(m) == [m EXCEPT !.vector.length = IF @ = 0 THEN 0 ELSE @ - 1]

\* vec_clear / vec_NAME_clear
vec_clear(m) == [m EXCEPT !.vector.length = 0]

\* A clear that hands every element to the callback it was given.
ClearCallsHook(m, callback) ==
    IF callback
    THEN [i \in 1..m.vector.length |->
            <<"callback", IF i <= Len(m.heap.slots) THEN m.heap.slots[i] ELSE Junk, i - 1>>]
    ELSE <<>>

\* The calls vec_clear / vec_NAME_clear makes: none.  vec_NAME_clear takes a
\* callback parameter (callback: one was supplied) and never uses it.
ClearCalls(m, callback) == <<>>

\* A pop without the empty check.
vec_pop_unchecked(m) ==
    ReadSlot([m EXCEPT !.vector.length = IF @ = 0 THEN 0 ELSE @ - 1],
             IF m.vector.length = 0 THEN 0 ELSE m.vector.length - 1)

\* vec_pop: decrement length, return the element at the new length.
\* The pairs <<machine, returned value>>.
vec_pop(m) ==
    IF m.vector.length = 0
    THEN {<<Exit(m, "BoundsError"), Junk>>}
    ELSE ReadSlot([m EXCEPT !.vector.length = @ - 1], m.vector.length - 1)

\* A release that forgets to reset capacity.
vec_destroy_keeps_capacity(m) ==
    { [m EXCEPT !.heap.live = FALSE, !.frees = @ + 1, !.vector.data = "NULL",
                !.vector.length = 0, !.status = "Destroyed"] }
    \cup (IF m.corrupt THEN {Crash(m)} ELSE {})

\* A destroy that resets the fields but leaves the block allocated.
vec_destroy_no_free(m) ==
    { [m EXCEPT !.vector.data = "NULL",
                !.vector.length = 0, !.vector.capacity = 0, !.status = "Destroyed"] }
    \cup (IF m.corrupt THEN {Crash(m)} ELSE {})

\* A release that forgets to reset length.
vec_destroy_keeps_length(m) ==
    IF m.vector.data = "NULL"
    THEN { [m EXCEPT !.vector.capacity = 0, !.status = "Destroyed"] }
    ELSE { [m EXCEPT !.heap.live = FALSE, !.frees = @ + 1, !.vector.data = "NULL",
                     !.vector.capacity = 0, !.status = "Destroyed"] }
         \cup (IF m.corrupt THEN {Crash(m)} ELSE {})

\* vec_destroy / vec_NAME_destroy after its loop: free(data), data = NULL,
\* length = 0, capacity = 0.  free(NULL), on a buffer already destroyed,
\* releases nothing.
vec_destroy_release(m) ==
    IF m.vector.data = "NULL"
    THEN { [m EXCEPT !.vector.length = 0, !.vector.capacity = 0, !.status = "Destroyed"] }
    ELSE { [m EXCEPT !.heap.live = FALSE, !.frees = @ + 1, !.vector.data = "NULL",
                     !.vector.length = 0, !.vector.capacity = 0, !.status = "Destroyed"] }
         \cup (IF m.corrupt THEN {Crash(m)} ELSE {})

\* A loop test that stops one element early.
LoopTestSkipsLast(i, length) == i + 1 < length

\* for (size_t i = 0; i < vector->length; i++): the test of the loops of
\* vec_for_each and vec_destroy.
LoopTest(i, length) == i < length

\* ------------------------------------------------------------- actions
Outcome(m) ==
    IF m.status = "Exited" THEN m.error
    ELSE IF m.status = "Crashed" THEN "Crash" ELSE "ok"

Apply(m) ==
    /\ variant' = m.variant
    /\ vector' = m.vector
    /\ heap' = m.heap
    /\ status' = m.status
    /\ error' = m.error
    /\ corrupt' = m.corrupt
    /\ frees' = m.frees

\* Record a completed call.
Call(op, arg, index, ret, m) ==
    last' = [op |-> op, arg |-> arg, index |-> index, ret |-> ret,
             outcome |-> Outcome(m),
             reallocs |-> m.reallocs,
             preLen |-> vector.length, preCap |-> vector.capacity,
             preSlots |-> heap.slots, preBytes |-> heap.bytes,
             before |-> IF op \in {"pop", "clear"}
                        THEN [op |-> last.op, arg |-> last.arg, preLen |-> last.preLen,
                              outcome |-> last.outcome]
                        ELSE NoBefore]

\* A call with a loop has been entered and has not returned yet.
Running(op) == [NoCall EXCEPT !.op = op, !.outcome = "running",
                              !.preLen = vector.length, !.preCap = vector.capacity,
                              !.preSlots = heap.slots, !.preBytes = heap.bytes]

Idle == status = "Live" /\ loop.op = "none"

\* The struct can be handed to a call: it was initialised, the process is
\* alive and no call is running.  After destroy the caller still holds the struct.
Callable == status \in {"Live", "Destroyed"} /\ loop.op = "none"

\* Marks a history that is no longer init followed by pushes (and gets) only.
Impure == <<Junk>>

Init ==
    /\ variant = "library"
    /\ vector = [length |-> 0, capacity |-> 0, el_size |-> 0, growth_factor |-> <<1, 1>>, data |-> "NULL"]
    /\ heap = NoBlock
    /\ status = "Uninit"
    /\ error = "none"
    /\ corrupt = FALSE
    /\ frees = 0
    /\ loop = NoLoop
    /\ trace = <<>>
    /\ last = NoCall
    /\ appended = Impure

DoInit ==
    /\ status = "Uninit"
    /\ \E v \in Variants, c \in 0..MaxInitCap, g \in GrowthFactors :
         \E e \in (IF v = "library" THEN ElSizes ELSE {PtrSize}) :
           \E m \in vec_init(M, v, c, e, g) :
             /\ Apply(m)
             /\ Call("init", c, 0, <<>>, m)
             /\ appended' = IF m.status = "Live" THEN <<>> ELSE Impure
    /\ UNCHANGED <<loop, trace>>

\* vec_resize called by the owner.  The caller keeps new_capacity >= length
\* and never asks for 0 ("shrinking memory to 0 might result in undefined
\* behavior", library.h:227).
DoResize ==
    /\ Idle
    /\ \E c \in 0..MaxNewCap :
         /\ c >= vector.length
         /\ \E m \in vec_resize(M, c) :
              /\ Apply(m)
              /\ Call("resize", c, 0, <<>>, m)
    /\ appended' = Impure
    /\ trace' = <<>>
    /\ UNCHANGED loop

DoEnsure ==
    /\ Idle
    /\ \E n \in 0..MaxN :
         \E m \in vec_ensure(M, n) :
           /\ Apply(m)
           /\ Call("ensure", n, 0, <<>>, m)
    /\ appended' = Impure
    /\ trace' = <<>>
    /\ UNCHANGED loop

DoPush ==
    /\ Idle
    /\ vector.length < MaxLen
    /\ \E value \in Values :
         \E m \in vec_push(M, value) :
           /\ Apply(m)
           /\ Call("push", value, 0, <<>>, m)
           /\ appended' = IF appended # Impure /\ m.status = "Live"
                          THEN Append(appended, value) ELSE Impure
    /\ trace' = <<>>
    /\ UNCHANGED loop

DoSet ==
    /\ Callable
    /\ \E index \in 0..MaxLen, value \in Values :
         \E m \in vec_set(M, index, value) :
           /\ Apply(m)
           /\ Call("set", value, index, <<>>, m)
    /\ appended' = Impure
    /\ trace' = <<>>
    /\ UNCHANGED loop

DoGet ==
    /\ Callable
    /\ \E index \in 0..MaxLen :
         \E r \in vec_get(M, index) :
           /\ Apply(r[1])
           /\ Call("get", 0, index, IF r[1].status = status THEN <<r[2]>> ELSE <<>>, r[1])
           /\ appended' = IF r[1].status = "Live" THEN appended ELSE Impure
    /\ trace' = <<>>
    /\ UNCHANGED loop

DoPop ==
    /\ Idle
    /\ \E r \in vec_pop(M) :
         /\ Apply(r[1])
         /\ Call("pop", 0, 0, IF r[1].status = "Live" THEN <<r[2]>> ELSE <<>>, r[1])
    /\ appended' = Impure
    /\ trace' = <<>>
    /\ UNCHANGED loop

DoClear ==
    /\ Idle
    /\ \E callback \in (IF variant = "typed" THEN BOOLEAN ELSE {FALSE}) :
         /\ Apply(vec_clear(M))
         /\ Call("clear", IF callback THEN 1 ELSE 0, 0, <<>>, vec_clear(M))
         /\ trace' = ClearCalls(M, callback)
    /\ appended' = Impure
    /\ UNCHANGED loop

\* vec_for_each, entered: i = 0
ForEachBegin ==
    /\ Callable
    /\ loop' = [op |-> "for_each", i |-> 0, fn |-> TRUE]
    /\ trace' = <<>>
    /\ last' = Running("for_each")
    /\ UNCHANGED <<variant, vector, heap, status, error, corrupt, frees, appended>>

\* one iteration: callback(data[i], i)
ForEachCall ==
    /\ status \in {"Live", "Destroyed"}
    /\ loop.op = "for_each"
    /\ LoopTest(loop.i, vector.length)
    /\ \E r \in ReadSlot(M, loop.i) :
         /\ Apply(r[1])
         /\ trace' = IF r[1].status = status
                     THEN Append(trace, <<"callback", r[2], loop.i>>) ELSE trace
         /\ last' = [last EXCEPT !.outcome = IF r[1].status = status THEN @ ELSE Outcome(r[1])]
    /\ loop' = [loop EXCEPT !.i = @ + 1]
    /\ UNCHANGED appended

\* the loop test fails: vec_for_each returns
ForEachEnd ==
    /\ status \in {"Live", "Destroyed"}
    /\ loop.op = "for_each"
    /\ ~LoopTest(loop.i, vector.length)
    /\ loop' = NoLoop
    /\ last' = [last EXCEPT !.outcome = "ok"]
    /\ UNCHANGED <<variant, vector, heap, status, error, corrupt, frees, trace, appended>>

\* vec_destroy, entered with or without a free_fn
DestroyBegin ==
    /\ Callable
    /\ \E fn \in BOOLEAN : loop' = [op |-> "destroy", i |-> 0, fn |-> fn]
    /\ trace' = <<>>
    /\ last' = Running("destroy")
    /\ appended' = Impure
    /\ UNCHANGED <<variant, vector, heap, status, error, corrupt, frees>>

\* one iteration of the cleanup loop: free_fn(data[i], i)
DestroyCall ==
    /\ status \in {"Live", "Destroyed"}
    /\ loop.op = "destroy"
    /\ loop.fn
    /\ LoopTest(loop.i, vector.length)
    /\ \E r \in ReadSlot(M, loop.i) :
         /\ Apply(r[1])
         /\ trace' = IF r[1].status = status
                     THEN Append(trace, <<"free_fn", r[2], loop.i>>) ELSE trace
         /\ last' = [last EXCEPT !.outcome = IF r[1].status = status THEN @ ELSE Outcome(r[1])]
    /\ loop' = [loop EXCEPT !.i = @ + 1]
    /\ UNCHANGED appended

\* after the loop: free(data) and the reset of the fields
DestroyRelease ==
    /\ status \in {"Live", "Destroyed"}
    /\ loop.op = "destroy"
    /\ ~(loop.fn /\ LoopTest(loop.i, vector.length))
    /\ \E m \in vec_destroy_release(M) :
         /\ Apply(m)
         /\ last' = [last EXCEPT !.outcome = Outcome(m)]
         /\ trace' = IF m.status = "Destroyed" THEN Append(trace, <<"free", Junk, 0>>) ELSE trace
    /\ loop' = [loop EXCEPT !.op = "none"]
    /\ UNCHANGED appended

Next ==
    \/ DoInit
    \/ DoResize
    \/ DoEnsure
    \/ DoPush
    \/ DoSet
    \/ DoGet
    \/ DoPop
    \/ DoClear
    \/ ForEachBegin
    \/ ForEachCall
    \/ ForEachEnd
    \/ DestroyBegin
    \/ DestroyCall
    \/ DestroyRelease

Spec == Init /\ [][Next]_vars

\* ------------------------------------------------------------- claims

\* The plainest use: growth factor 2.0 and el_size equal to the slot size
\* (always so in vector.h; vec_init(&v, cap, sizeof(void *), 2.0) in library.h).
Plain == vector.growth_factor = <<2, 1>> /\ vector.el_size = SlotSize(M)

\* C1: after every call of init, ensure, resize (new_capacity >= length), push,
\* set, get, for_each, clear and destroy, len() <= capacity().
C1_LengthLeCapacity ==
    (status \in {"Live", "Destroyed"} /\ Plain /\ last.op # "pop")
        => vec_len(M) <= vec_capacity(M)

\* C2: after init followed by push(v0), ..., push(v(n-1)), len() == n and
\* get(i) returns vi for every i in 0..n-1.
C2_AppendCorrect ==
    (status = "Live" /\ Plain /\ appended # Impure)
        => /\ vec_len(M) = Len(appended)
           /\ \A i \in 0..(Len(appended) - 1) :
                \A r \in vec_get(M, i) : r[1].status = "Live" /\ r[2] = appended[i + 1]

\* C3: with growth factor 2.0 every push that finds length == capacity doubles
\* capacity(), and capacity() is then at least the number of pushed elements.
C3_GrowthDoubles ==
    (status = "Live" /\ Plain /\ last.op = "push" /\ last.outcome = "ok"
       /\ last.preLen = last.preCap)
        => /\ vec_capacity(M) = 2 * last.preCap
           /\ vec_capacity(M) >= vec_len(M)

\* C4: after ensure(n) returns, capacity - length >= n.
C4_EnsureFreeSlots ==
    (status = "Live" /\ Plain /\ last.op = "ensure" /\ last.outcome = "ok")
        => vec_capacity(M) - vec_len(M) >= last.arg

\* C5: in every Live state capacity() equals the number of slots allocated
\* in the backing store.
C5_CapacityIsAllocated ==
    (status = "Live" /\ Plain) => vec_capacity(M) = AllocSlots(M)

\* C6: resize(new_capacity) with new_capacity >= length leaves the store with
\* exactly new_capacity slots and capacity() == new_capacity, keeps length and
\* keeps the first min(length, new_capacity) elements.
C6_ResizeExact ==
    (status = "Live" /\ Plain /\ last.op = "resize" /\ last.outcome = "ok")
        => /\ AllocSlots(M) = last.arg
           /\ vec_capacity(M) = last.arg
           /\ vec_len(M) = last.preLen
           /\ \A i \in 1..last.preLen :
                (i <= last.arg /\ i <= Len(last.preSlots) /\ i <= Len(heap.slots))
                    => heap.slots[i] = last.preSlots[i]

\* C7: get(index) and set(index, v) end in the fatal BoundsError exactly when
\* index >= length, and then no slot has been read or written; when
\* index < length the call goes through to slot index (a set changes no
\* other slot, a get returns the stored value).
C7_BoundsEnforced ==
    (last.op \in {"get", "set"})
        => /\ (last.outcome = "BoundsError") <=> (last.index >= last.preLen)
           /\ (last.index >= last.preLen)
                => /\ status = "Exited" /\ error = "BoundsError"
                   /\ heap.slots = last.preSlots
                   /\ last.ret = <<>>
           /\ (last.index < last.preLen /\ last.index < Len(last.preSlots))
                => /\ last.outcome = "ok"
                   /\ last.op = "set" =>
                        heap.slots = [last.preSlots EXCEPT ![last.index + 1] = last.arg]
                   /\ (last.op = "get" /\ last.preSlots[last.index + 1] # Junk) =>
                        last.ret = <<last.preSlots[last.index + 1]>>

\* C7 witness: a set at index == length on a non-empty buffer was refused.
C7_Witness ==
    /\ last.op = "set"
    /\ last.preLen >= 1
    /\ last.index = last.preLen
    /\ last.outcome = "BoundsError"

\* The free_fn invocations of a destroy that has done k iterations.
CleanupCalls(k) ==
    [i \in 1..k |->
        <<"free_fn",
          IF i <= Len(heap.slots) /\ heap.slots[i] # Junk THEN heap.slots[i] ELSE trace[i][2],
          i - 1>>]

\* C8: after destroy, capacity == 0, length == 0 and data is null; a supplied
\* cleanup callback has run exactly once per element live at the call, with
\* indices 0..length-1 ascending, all before the release; without a callback
\* none has run.
C8_DestroyTerminal ==
    /\ (status = "Live" /\ loop.op = "destroy")
         => /\ heap.live
            /\ Len(trace) = (IF loop.fn THEN loop.i ELSE 0)
            /\ trace = CleanupCalls(Len(trace))
    /\ (status = "Destroyed")
         => /\ vec_capacity(M) = 0
            /\ vec_len(M) = 0
            /\ vector.data = "NULL"
            /\ ~heap.live
            /\ frees = 1
            /\ (last.op = "destroy" /\ last.outcome = "ok")
                 => /\ Len(trace) = (IF loop.fn THEN last.preLen ELSE 0) + 1
                    /\ trace[Len(trace)] = <<"free", Junk, 0>>
                    /\ SubSeq(trace, 1, Len(trace) - 1) = CleanupCalls(Len(trace) - 1)

\* C8 witness: a destroy with a callback has released a buffer of two or more elements.
C8_Witness ==
    /\ status = "Destroyed"
    /\ loop.fn
    /\ last.preLen >= 2
    /\ Len(trace) = last.preLen + 1

\* C9: pop() right after push(v) returns v and restores the length that held
\* before the push.
C9_PushPopDuality ==
    (last.op = "pop" /\ last.before.op = "push" /\ last.before.outcome = "ok" /\ Plain)
        => /\ last.outcome = "ok"
           /\ last.ret = <<last.before.arg>>
           /\ vec_len(M) = last.before.preLen

\* C10: pop() on an empty buffer ends in the fatal BoundsError and leaves
\* length at 0.
C10_PopEmptyFails ==
    (last.op = "pop" /\ last.preLen = 0)
        => /\ status = "Exited"
           /\ error = "BoundsError"
           /\ last.outcome = "BoundsError"
           /\ last.ret = <<>>
           /\ vec_len(M) = 0

\* C10 witness: a pop right after init was refused.
C10_Witness ==
    /\ last.op = "pop"
    /\ last.preLen = 0
    /\ last.before.op = "init"
    /\ error = "BoundsError"

\* C11: clear() leaves length == 0, and a second clear() right after it
\* leaves length, capacity and the backing store exactly as the first did.
C11_ClearIdempotent ==
    (last.op = "clear")
        => /\ status = "Live"
           /\ vec_len(M) = 0
           /\ vec_clear(M) = M
           /\ (last.before.op = "clear")
                => /\ last.preLen = 0
                   /\ vec_capacity(M) = last.preCap
                   /\ heap.slots = last.preSlots
                   /\ heap.live

\* C11 witness: a buffer with elements was cleared, then cleared again.
C11_Witness ==
    /\ last.op = "clear"
    /\ last.before.op = "clear"
    /\ last.before.preLen >= 2
    /\ vec_len(M) = 0

\* The callback invocations of a for_each that has done k iterations.
ForEachCalls(k) ==
    [i \in 1..k |->
        <<"callback",
          IF i <= Len(heap.slots) /\ heap.slots[i] # Junk THEN heap.slots[i] ELSE trace[i][2],
          i - 1>>]

\* C12: for_each invokes the callback once per live element, with
\* (data[i], i) for i = 0, 1, ..., length-1 in ascending order, not at all
\* on an empty buffer, and leaves length, capacity and the stored values
\* unchanged.
C12_ForEachVisits ==
    /\ (status \in {"Live", "Destroyed"} /\ loop.op = "for_each")
         => /\ loop.i <= vec_len(M)
            /\ Len(trace) = loop.i
            /\ trace = ForEachCalls(loop.i)
            /\ vec_len(M) = last.preLen
            /\ heap.slots = last.preSlots
    /\ (last.op = "for_each" /\ last.outcome = "ok")
         => /\ status \in {"Live", "Destroyed"}
            /\ loop.op = "none"
            /\ Len(trace) = last.preLen
            /\ trace = ForEachCalls(last.preLen)
            /\ vec_len(M) = last.preLen
            /\ vec_capacity(M) = last.preCap
            /\ heap.slots = last.preSlots

\* C12 witness: a for_each over two or more elements has returned.
C12_Witness ==
    /\ last.op = "for_each"
    /\ last.outcome = "ok"
    /\ last.preLen >= 2
    /\ Len(trace) = last.preLen

\* C13: init with initial_capacity == 0 ends in the fatal ConstructionError
\* with nothing allocated and no Live buffer; init with initial_capacity >= 1
\* whose allocation succeeds gives a Live buffer with length 0 and
\* capacity == initial_capacity.
C13_InitChecked ==
    (last.op = "init")
        => /\ (last.arg = 0)
                => /\ status = "Exited"
                   /\ error = "ConstructionError"
                   /\ heap = NoBlock
                   /\ vector.data = "NULL"
           /\ (last.arg >= 1)
                => /\ status \in {"Live", "Exited"}
                   /\ (status = "Exited") => (error = "AllocationError" /\ ~heap.live)
                   /\ (status = "Live")
                        => /\ vec_len(M) = 0
                           /\ vec_capacity(M) = last.arg
                           /\ vector.data = "ptr"
                           /\ heap.live
                           /\ AllocSlots(M) = last.arg

\* C13 witness: init(0) was refused.
C13_Witness ==
    /\ last.op = "init"
    /\ last.arg = 0
    /\ error = "ConstructionError"

\* C14: capacity() >= 1 in every Live state.
C14_CapacityPositive ==
    (status = "Live") => vec_capacity(M) >= 1

\* C14 witness: a Live buffer after a push that found it full.
C14_Witness ==
    /\ status = "Live"
    /\ last.op = "push"
    /\ last.outcome = "ok"
    /\ last.preLen >= last.preCap
    /\ vec_capacity(M) >= 1

C16_ReleasedOnceByDestroy ==
    /\ (status = "Live") => (heap.live /\ frees = 0)
    /\ (status = "Destroyed") => (~heap.live /\ frees = 1 /\ AllocSlots(M) = 0)

\* C16 witness: destroy has released a block that a realloc had grown.
C16_Witness ==
    /\ status = "Destroyed"
    /\ variant = "library"
    /\ heap.bytes > PtrSize * last.preCap
    /\ last.preLen >= 2
    /\ frees = 1

\* C17: a growth step makes progress: whenever ensure or push takes the growth
\* step, the new capacity (size_t)(capacity * growth_factor) it asks for is
\* strictly greater than the old capacity.
C17_GrowthProgress ==
    (last.op \in {"ensure", "push"} /\ last.reallocs = 1)
        => NewCapacity(last.preCap, vector.growth_factor) > last.preCap

\* C18: a push reallocates only when it finds length == capacity, so the
\* reallocations of a run of pushes are as rare as geometric growth makes them.
C18_ReallocOnlyWhenFull ==
    (Plain /\ last.op = "push" /\ last.reallocs > 0)
        => last.preLen = last.preCap

\* C19: ensure(n) is a single growth step: if length + n > capacity it calls
\* realloc exactly once, for capacity * growth_factor (truncated) elements,
\* even when that is less than length + n; if length + n <= capacity it calls
\* no realloc and leaves capacity, length and the backing store unchanged.
C19_EnsureSingleStep ==
    (last.op = "ensure")
        => /\ (last.preLen + last.arg > last.preCap)
                => /\ last.reallocs = 1
                   /\ (status = "Live")
                        => /\ heap.bytes = vector.el_size
                                            * NewCapacity(last.preCap, vector.growth_factor)
                           /\ vec_len(M) = last.preLen
           /\ (last.preLen + last.arg <= last.preCap)
                => /\ last.reallocs = 0
                   /\ status = "Live"
                   /\ vec_capacity(M) = last.preCap
                   /\ vec_len(M) = last.preLen
                   /\ heap.live
                   /\ heap.bytes = last.preBytes
                   /\ heap.slots = last.preSlots

\* C19 witness: one growth step that leaves less room than length + n.
C19_Witness ==
    /\ last.op = "ensure"
    /\ status = "Live"
    /\ last.reallocs = 1
    /\ last.preBytes < heap.bytes
    /\ AllocSlots(M) < last.preLen + last.arg

\* C20: set(index, v) with index < length overwrites only slot index: a get
\* of that index then returns v, every other slot keeps its value, and
\* length, capacity and the backing allocation are unchanged.
C20_SetFrame ==
    (Plain /\ last.op = "set" /\ last.index < last.preLen /\ status = "Live")
        => /\ \A r \in vec_get(M, last.index) :
                r[1].status = "Live" /\ r[2] = last.arg
           /\ vec_len(M) = last.preLen
           /\ vec_capacity(M) = last.preCap
           /\ heap.live
           /\ heap.bytes = last.preBytes
           /\ Len(heap.slots) = Len(last.preSlots)
           /\ \A j \in 1..Len(heap.slots) :
                j # last.index + 1 => heap.slots[j] = last.preSlots[j]

\* C21: clear() changes only length: capacity and the backing block are as
\* before, nothing has been released or reallocated, and no callback has been
\* invoked on the discarded elements, also when vec_NAME_clear was given one.
C21_ClearOnlyLength ==
    (last.op = "clear")
        => /\ status = "Live"
           /\ vec_len(M) = 0
           /\ vec_capacity(M) = last.preCap
           /\ vector.data = "ptr"
           /\ heap.live
           /\ heap.bytes = last.preBytes
           /\ heap.slots = last.preSlots
           /\ frees = 0
           /\ last.reallocs = 0
           /\ trace = <<>>

\* C21 witness: the typed clear was given a callback on a buffer of two or
\* more elements.
C21_Witness ==
    /\ last.op = "clear"
    /\ variant = "typed"
    /\ last.arg = 1
    /\ last.preLen >= 2
    /\ vec_len(M) = 0

\* C22: push never writes outside the allocation: after init and pushes only
\* (growth factor 2.0), the index a push has written, the length it found, is
\* strictly less than the number of slots the block holds at the write.
C22_PushInsideBlock ==
    (Plain /\ appended # Impure /\ last.op = "push" /\ status = "Live")
        => last.preLen < AllocSlots(M)

\* C23: on a destroyed buffer every get(index) and set(index, v) exits with
\* the bounds error and for_each invokes no callback, so the null data
\* pointer is never dereferenced; a second destroy runs no cleanup callback,
\* releases nothing further and leaves length == 0, capacity == 0, data null.
C23_UseAfterDestroy ==
    /\ (vector.data = "NULL" /\ last.op \in {"get", "set"})
         => /\ status = "Exited"
            /\ error = "BoundsError"
            /\ last.ret = <<>>
    /\ (vector.data = "NULL" /\ last.op \in {"get", "set", "for_each", "destroy"})
         => /\ status # "Crashed"
            /\ ~heap.live
            /\ frees = 1
            /\ heap.slots = last.preSlots
            /\ vec_len(M) = 0
            /\ vec_capacity(M) = 0
    /\ (vector.data = "NULL" /\ last.op = "for_each")
         => /\ status = "Destroyed"
            /\ loop.i = 0
            /\ trace = <<>>
    /\ (status = "Destroyed" /\ last.op = "destroy" /\ last.preCap = 0)
         => /\ loop.i = 0
            /\ (last.outcome = "ok") => trace = <<(<<"free", Junk, 0>>)>>

\* C23 witness: a set at index 0 on a destroyed buffer, whose block had two or
\* more slots, was refused.
C23_Witness ==
    /\ vector.data = "NULL"
    /\ last.op = "set"
    /\ last.index = 0
    /\ Len(heap.slots) >= 2
    /\ error = "BoundsError"

\* C24: in the size-parameterized variant the block vec_resize(new_capacity)
\* allocates, el_size * new_capacity bytes, has room for new_capacity slots
\* of the size push, get and set index with (the pointer size vec_init
\* allocates with).
C24_ElementSizeConsistent ==
    (variant = "library" /\ last.op = "resize" /\ last.outcome = "ok" /\ status = "Live")
        => /\ heap.bytes >= PtrSize * last.arg
           /\ AllocSlots(M) >= last.arg

====
